---- MODULE Spec2Model ----
(***************************************************************************)
(* A state-machine model of src/rhythmGame.py: the falling-note judgment   *)
(* and level-progression engine (classes Note, DifficultyManager,          *)
(* DataCollector, NoteGenerator, Game).                                    *)
(*                                                                         *)
(* Units.  Wall-clock readings (time.time()) are integers in milliseconds  *)
(* and are assumed non-decreasing.  Vertical positions and speeds are      *)
(* integers in half-pixels, because LEVEL_SPEED_ACCR is 3.5 px per tick;   *)
(* Half(x) converts a pixel quantity of the source.                        *)
(*                                                                         *)
(* One action is one event handled by Game.handle_input, or one loop       *)
(* iteration's Game.update followed by the frame wait of clock.tick(FPS).  *)
(* The blocking prompts (confirm_action, show_feedback, get_player_name)   *)
(* are part of the handler that opens them; the time they take is an       *)
(* input of that handler.                                                  *)
(*                                                                         *)
(* Not modelled: rendering (the draw methods), the x coordinate of a note,  *)
(* the hit line flash timer (cosmetic, lines 581-586), the player name,    *)
(* and the timestamp column of the event rows.                             *)
(***************************************************************************)
EXTENDS Integers, Sequences, FiniteSets, TLC

----------------------------------------------------------------------------
(* Program constants (src/rhythmGame.py lines 9-32).                       *)

WINDOW_HEIGHT == 600
FPS == 60
\* len(KEYS), KEYS = ['D', 'F', 'J', 'K']
LaneCount == 4
\* seconds
GAME_DURATION == 70
LEVELS == 5
NOTE_HEIGHT == 40
HIT_LINE_Y == WINDOW_HEIGHT - 100
BASIC_SPEED == 2
\* LEVEL_SPEED_ACCR = 3.5 px per tick, written in half-pixels
LEVEL_SPEED_ACCR_HALVES == 7
\* SPAWN_INTERVAL = 0.6 s, in milliseconds
SPAWN_INTERVAL_MS == 600
\* the literal 0.5 s of line 578, in milliseconds
MISS_GRACE_MS == 500

Half(px) == 2 * px
GameDurationMs == 1000 * GAME_DURATION
\* clock.tick(FPS) makes a loop iteration last at least 1/FPS s
FrameMs == (1000 + FPS - 1) \div FPS

----------------------------------------------------------------------------
(* Bounds of the model.  A run is explored under one of five budgets of    *)
(* inputs, chosen in Init; every input an action takes is spent from the   *)
(* budget: frames (Tick), runs (RunFrames), presses (KeyLane), toggles     *)
(* (KeySpace), stalls and waits (prompts answered 'n' after one spawn      *)
(* interval, or after one level duration), skips, menus, quits, closes     *)
(* (a window closed inside a prompt) and sessions (games started).         *)

JudgeFrames == 5
JudgePresses == 2
ClockFrames == 4
ClockPresses == 1
LevelFrames == 3
LevelPresses == 1
AbandonFrames == 2
AbandonPresses == 1
AgainFrames == 2
SummaryPresses == 2
CadenceStalls == 3
\* direct calls of the components: level numbers tried beyond either end of
\* the level list, Hit and Miss events per lane of a summarized buffer
OutOfRange == 2
MaxPerLane == 2
\* loop iterations of one uninterrupted run of frames (action RunFrames)
FastFrames == 28

NoBudget ==
    [modes |-> {}, frames |-> 0, runs |-> 0, presses |-> 0, toggles |-> 0,
     stalls |-> 0, waits |-> 0, skips |-> 0, menus |-> 0, quits |-> 0,
     closes |-> 0, sessions |-> 1]

\* notes falling to the line in the fastest level: hits, misses, pruning
JudgeBudget ==
    [NoBudget EXCEPT !.modes = {"test"}, !.frames = JudgeFrames, !.runs = 1,
                     !.presses = JudgePresses, !.stalls = 2]

\* pausing, resuming and skipping
ClockBudget ==
    [NoBudget EXCEPT !.modes = {"normal"}, !.frames = ClockFrames,
                     !.presses = ClockPresses, !.toggles = 2, !.stalls = 1,
                     !.skips = 1]

\* levels completing and being skipped up to the last one
LevelBudget ==
    [NoBudget EXCEPT !.modes = {"normal"}, !.frames = LevelFrames,
                     !.presses = LevelPresses, !.waits = 2, !.skips = 4]

\* skip, return to menu, quit, a window closed inside a prompt
AbandonBudget ==
    [NoBudget EXCEPT !.modes = {"normal"}, !.frames = AbandonFrames,
                     !.presses = AbandonPresses, !.skips = 1, !.menus = 1,
                     !.quits = 1, !.closes = 1]

\* a second game after the first
AgainBudget ==
    [NoBudget EXCEPT !.modes = {"normal"}, !.frames = AgainFrames, !.toggles = 1,
                     !.skips = 1, !.menus = 1, !.sessions = 2]

\* events recorded in two levels in a row, each level left by a skip
SummaryBudget ==
    [NoBudget EXCEPT !.modes = {"normal"}, !.frames = 1, !.presses = SummaryPresses,
                     !.skips = 2]

\* prompts that hold the loop for several spawn intervals in a row, spawns
\* in two levels in a row
CadenceBudget ==
    [NoBudget EXCEPT !.modes = {"normal"}, !.frames = 2, !.stalls = CadenceStalls,
                     !.skips = 1]

Budgets ==
    {JudgeBudget, ClockBudget, LevelBudget, AbandonBudget, AgainBudget, SummaryBudget,
     CadenceBudget}

\* the lanes that spawns and presses use
LanesUsed == {0, 1}
\* the answers typed into the feedback questionnaire
\* show_feedback's answers when the window is closed before the third answer
\* (lines 617-619): the method returns without a complete list
WindowClosed == <<>>

FeedbackAnswers == {<<4, 3, 2>>, WindowClosed}

None == -1


----------------------------------------------------------------------------
(* State.                                                                  *)

VARIABLES
    now,                \* environment: the reading of time.time(), ms
    running,            \* Game.running
    exited,             \* the process is over (loop left, exit(), or crash)
    started,            \* init_game has run: the game attributes exist
    mode,               \* Game.mode: "none", "normal" or "test"
    paused,             \* Game.paused
    in_menu,            \* Game.in_menu
    game_over,          \* Game.game_over
    current_level,      \* Game.current_level
    combo,              \* Game.combo
    hits,               \* Game.hits
    incorrect_hits,     \* Game.incorrect_hits
    total_notes,        \* Game.total_notes
    start_time,         \* Game.start_time
    pause_start_time,   \* Game.pause_start_time (None when unset)
    total_paused_time,  \* Game.total_paused_time
    current_time,       \* Game.current_time
    dm,                 \* the DifficultyManager: levels, current_level, current_speed
    notes,              \* NoteGenerator.notes
    last_spawn_time,    \* NoteGenerator.last_spawn_time
    session_data,       \* DataCollector.session_data, the in-memory buffer
    dc_level,           \* DataCollector.level
    event_rows,         \* rows appended to the event CSV of this game
    feedback_rows,      \* rows appended to the feedback CSV of this game
    analysis_rows,      \* rows appended to the analysis CSV of this game
    spawned,            \* history: notes created in this game (gives each note its identity)
    lastOp,             \* history: the operation of the last step
    g_unpaused,         \* history: ms of wall time spent not paused since the level began
    g_carried,          \* history: the level began while the game was paused
    g_level_spawns,     \* history: the notes spawned in the current level
    g_ticked,           \* history: a running update has happened in this level
    g_last,             \* history: the elapsed time computed by that update
    budget              \* the inputs the run may still take (bounds of the model)

flagVars   == <<running, exited, started, mode, paused, in_menu, game_over>>
scoreVars  == <<combo, hits, incorrect_hits, total_notes>>
clockVars  == <<start_time, pause_start_time, total_paused_time, current_time>>
noteVars   == <<notes, last_spawn_time, spawned>>
dataVars   == <<session_data, dc_level, event_rows, feedback_rows, analysis_rows>>
ghostVars  == <<g_unpaused, g_carried, g_level_spawns, g_ticked, g_last>>
engineVars == <<flagVars, current_level, scoreVars, clockVars, dm, noteVars, dataVars>>
vars       == <<now, engineVars, lastOp, ghostVars, budget>>

Spend(field) == [budget EXCEPT ![field] = @ - 1]

Op(name, lane, res) == [op |-> name, lane |-> lane, res |-> res]

----------------------------------------------------------------------------
(* Note (lines 34-44).                                                     *)

Note(id, lane, speed, y) ==
    [id |-> id, lane |-> lane, y |-> y, speed |-> speed, state |-> "active",
     hit_time |-> None, start_hit_time |-> None, miss_time |-> None]

----------------------------------------------------------------------------
(* DifficultyManager (lines 46-79) and the level list of init_game         *)
(* (lines 296-312).                                                        *)

LevelSpeed(i) == Half(BASIC_SPEED) + i * LEVEL_SPEED_ACCR_HALVES

LevelList == [i \in 1 .. LEVELS |-> LevelSpeed(i - 1)]

Reversed(s) == [i \in 1 .. Len(s) |-> s[Len(s) + 1 - i]]

\* outcomes of random.shuffle(levels) the model draws from
ShuffleChoices == {Reversed(LevelList)}

LevelsOfMode(m) ==
    IF m = "normal" THEN {LevelList}
    ELSE IF m = "test" THEN ShuffleChoices
    ELSE {<<>>}

DifficultyManager == [levels |-> <<>>, current_level |-> 1, current_speed |-> Half(2)]

set_levels(d, levels) == [d EXCEPT !.levels = levels]

\* self.levels[level - 1] (lines 72-73) raises IndexError when level - 1 is
\* below -len(self.levels); other negative indices count from the end
set_level_raises(d, level) == level <= Len(d.levels) /\ level - 1 < -Len(d.levels)

\* lines 68-75: the manager after the call, also when the call raises
\* (current_level is assigned first, line 70)
set_level(d, level) ==
    IF level <= Len(d.levels) /\ ~set_level_raises(d, level)
    THEN [d EXCEPT !.current_level = level,
                   !.current_speed = IF level >= 1 THEN d.levels[level]
                                     ELSE d.levels[Len(d.levels) + level]]
    ELSE [d EXCEPT !.current_level = level]

get_speed(d) == d.current_speed

----------------------------------------------------------------------------
(* DataCollector (lines 81-254).                                           *)

Abs(x) == IF x < 0 THEN -x ELSE x

\* record_hit: the row built for `note`.  A Python value that is falsy
\* (None or 0) is written as None by the two conditional conversions.
\* reaction_distance is int(abs(note.y - HIT_LINE_Y)); `note` is the identity
\* of the Note object passed in (0 for the dummy note of an incorrect press).
record_hit(note, level, hit_status) ==
    LET reaction_time ==
            IF note.hit_time # None /\ note.start_hit_time # None
            THEN note.hit_time - note.start_hit_time
            ELSE None
        distance_halves ==
            IF note.hit_time # None THEN Abs(note.y - Half(HIT_LINE_Y)) ELSE None
    IN [level |-> level,
        lane |-> note.lane,
        hit_status |-> hit_status,
        reaction_time |-> IF reaction_time # None /\ reaction_time # 0
                          THEN reaction_time ELSE None,
        reaction_distance |-> IF distance_halves # None /\ distance_halves # 0
                              THEN distance_halves \div 2 ELSE None,
        speed |-> note.speed,
        note |-> note.id]

\* save_feedback: the feedback row
save_feedback(level, feedback, total_time, exited_flag) ==
    [level |-> level, feedback |-> feedback, game_duration |-> total_time,
     exited |-> exited_flag]

RECURSIVE Gcd(_, _)
Gcd(a, b) == IF b = 0 THEN a ELSE Gcd(b, a % b)

\* the quotient n / d as a reduced fraction <<numerator, denominator>>
Quotient(n, d) == LET g == Gcd(n, d) IN IF g = 0 THEN <<0, 1>> ELSE <<n \div g, d \div g>>

\* "n / d if d > 0 else 0"
RateOf(n, d) == IF d > 0 THEN Quotient(n, d) ELSE <<0, 1>>

Lanes == 0 .. LaneCount - 1

CountRows(data, statuses, lanes) ==
    Cardinality({i \in DOMAIN data :
                    data[i].hit_status \in statuses /\ data[i].lane \in lanes})

RECURSIVE SumReaction(_, _)
SumReaction(data, lanes) ==
    IF data = <<>> THEN 0
    ELSE (IF Head(data).reaction_time # None /\ Head(data).lane \in lanes
          THEN Head(data).reaction_time ELSE 0) + SumReaction(Tail(data), lanes)

CountReaction(data, lanes) ==
    Cardinality({i \in DOMAIN data :
                    data[i].reaction_time # None /\ data[i].lane \in lanes})

\* mutant of analyze_data: incorrect presses are counted as notes
analyze_data_counting_all(data, level, total_time, exited_flag) ==
    [level |-> level,
     hit_rate |-> RateOf(CountRows(data, {"hit"}, Lanes),
                         CountRows(data, {"hit", "miss", "incorrect"}, Lanes)),
     lane_hit_rates |->
        [l \in Lanes |-> RateOf(CountRows(data, {"hit"}, {l}),
                                CountRows(data, {"hit", "miss", "incorrect"}, {l}))],
     avg_reaction_time |-> RateOf(SumReaction(data, Lanes), CountReaction(data, Lanes)),
     avg_lane_reaction_times |->
        [l \in Lanes |-> RateOf(SumReaction(data, {l}), CountReaction(data, {l}))],
     incorrect_hit_rate |-> RateOf(CountRows(data, {"incorrect"}, Lanes),
                                   CountRows(data, {"hit", "incorrect"}, Lanes)),
     lane_incorrect_hit_rates |->
        [l \in Lanes |-> RateOf(CountRows(data, {"incorrect"}, {l}),
                                CountRows(data, {"hit", "incorrect"}, {l}))],
     game_duration |-> total_time,
     exit_rate |-> IF exited_flag THEN 1 ELSE 0,
     window |-> data]

\* analyze_data: the analysis row computed from the buffer `data`; the field
\* `window` is history (the rows the aggregates were computed from).
analyze_data(data, level, total_time, exited_flag) ==
    [level |-> level,
     hit_rate |-> RateOf(CountRows(data, {"hit"}, Lanes),
                         CountRows(data, {"hit", "miss"}, Lanes)),
     lane_hit_rates |->
        [l \in Lanes |-> RateOf(CountRows(data, {"hit"}, {l}),
                                CountRows(data, {"hit", "miss"}, {l}))],
     avg_reaction_time |-> RateOf(SumReaction(data, Lanes), CountReaction(data, Lanes)),
     avg_lane_reaction_times |->
        [l \in Lanes |-> RateOf(SumReaction(data, {l}), CountReaction(data, {l}))],
     incorrect_hit_rate |-> RateOf(CountRows(data, {"incorrect"}, Lanes),
                                   CountRows(data, {"hit", "incorrect"}, Lanes)),
     lane_incorrect_hit_rates |->
        [l \in Lanes |-> RateOf(CountRows(data, {"incorrect"}, {l}),
                                CountRows(data, {"hit", "incorrect"}, {l}))],
     game_duration |-> total_time,
     exit_rate |-> IF exited_flag THEN 1 ELSE 0,
     window |-> data]

----------------------------------------------------------------------------
(* NoteGenerator (lines 256-272).                                          *)

\* line 269
SpawnDue(t, last) == t - last >= SPAWN_INTERVAL_MS

\* mutant of note_generator_update: one marker for every interval elapsed
note_generator_update_catching_up(ns, last, t, lane, id, speed) ==
    IF SpawnDue(t, last)
    THEN [notes |-> IF t - last >= 2 * SPAWN_INTERVAL_MS
                    THEN ns \o <<Note(id, lane, speed, 0), Note(id + 1, lane, speed, 0)>>
                    ELSE Append(ns, Note(id, lane, speed, 0)),
          last_spawn_time |-> t]
    ELSE [notes |-> ns, last_spawn_time |-> last]

\* mutant of note_generator_update: last_spawn_time is not set
note_generator_update_keeping_last(ns, last, t, lane, id, speed) ==
    IF SpawnDue(t, last)
    THEN [notes |-> Append(ns, Note(id, lane, speed, 0)), last_spawn_time |-> last]
    ELSE [notes |-> ns, last_spawn_time |-> last]

\* NoteGenerator.update (lines 264-272) at elapsed time t on the list ns:
\* lane is the outcome of random.randint, id the identity of the new Note,
\* speed the value of get_speed.
note_generator_update(ns, last, t, lane, id, speed) ==
    IF SpawnDue(t, last)
    THEN [notes |-> Append(ns, Note(id, lane, speed, 0)), last_spawn_time |-> t]
    ELSE [notes |-> ns, last_spawn_time |-> last]

----------------------------------------------------------------------------
(* Game.handle_note_hit (lines 393-429).                                   *)

\* line 401: HIT_LINE_Y - NOTE_HEIGHT <= note.y <= HIT_LINE_Y
InJudgmentWindow(y) == Half(HIT_LINE_Y - NOTE_HEIGHT) <= y /\ y <= Half(HIT_LINE_Y)

\* mutant of ScanCandidate: the lane of the note is not compared
ScanCandidateAnyLane(note, lane) == note.state = "active"

\* line 400
ScanCandidate(note, lane) == note.lane = lane /\ note.state = "active"

\* The loop of lines 399-416 from position i on: the first note on which it
\* breaks, and why.  The `elif` of line 412 is nested in the test of line 400.
RECURSIVE Scan(_, _, _)
Scan(ns, lane, i) ==
    IF i > Len(ns) THEN [kind |-> "none", idx |-> 0]
    ELSE IF ScanCandidate(ns[i], lane)
         THEN IF InJudgmentWindow(ns[i].y) THEN [kind |-> "hit", idx |-> i]
              ELSE IF ns[i].state = "hit" THEN [kind |-> "duplicate", idx |-> i]
              ELSE Scan(ns, lane, i + 1)
         ELSE Scan(ns, lane, i + 1)

RemoveAt(s, i) == SubSeq(s, 1, i - 1) \o SubSeq(s, i + 1, Len(s))

\* mutant of IncorrectPress: combo is not reset
IncorrectPressKeepsCombo(lane) ==
    LET dummy == [Note(0, lane, dm.current_speed, Half(HIT_LINE_Y)) EXCEPT !.hit_time = now]
        row == record_hit(dummy, current_level, "incorrect")
    IN /\ incorrect_hits' = incorrect_hits + 1
       /\ session_data' = Append(session_data, row)
       /\ event_rows' = Append(event_rows, row)
       /\ UNCHANGED <<combo, hits, total_notes, notes>>

\* lines 420-428: the bookkeeping of an incorrect press; dummy is the note of line 421
IncorrectPress(lane) ==
    LET dummy == [Note(0, lane, dm.current_speed, Half(HIT_LINE_Y)) EXCEPT !.hit_time = now]
        row == record_hit(dummy, current_level, "incorrect")
    IN /\ combo' = 0
       /\ incorrect_hits' = incorrect_hits + 1
       /\ session_data' = Append(session_data, row)
       /\ event_rows' = Append(event_rows, row)
       /\ UNCHANGED <<hits, total_notes, notes>>

handle_note_hit(lane) ==
    LET r == Scan(notes, lane, 1) IN
    /\ lastOp' = Op("press", lane, IF r.kind = "none" THEN "incorrect" ELSE r.kind)
    /\ IF r.kind = "hit"
       THEN LET note == [notes[r.idx] EXCEPT !.state = "hit", !.hit_time = now]
                row == record_hit(note, current_level, "hit")
            IN /\ combo' = combo + 1
               /\ hits' = hits + 1
               /\ total_notes' = total_notes + 1
               /\ session_data' = Append(session_data, row)
               /\ event_rows' = Append(event_rows, row)
               /\ notes' = RemoveAt(notes, r.idx)
               /\ UNCHANGED incorrect_hits
       ELSE IF r.kind = "duplicate"
       THEN LET row == record_hit(notes[r.idx], current_level, "duplicated")
            IN /\ session_data' = Append(session_data, row)
               /\ event_rows' = Append(event_rows, row)
               /\ UNCHANGED <<combo, hits, total_notes, incorrect_hits, notes>>
       ELSE IncorrectPress(lane)
    /\ UNCHANGED <<flagVars, current_level, clockVars, dm, last_spawn_time, spawned,
                   dc_level, feedback_rows, analysis_rows>>

----------------------------------------------------------------------------
(* Game.show_feedback (lines 605-646) and the level change shared by       *)
(* Game.update (lines 591-603) and Game.skip_level (lines 651-663).        *)

\* mutant of show_feedback: the buffer is not cleared after the summary
show_feedback_keeps_buffer(skipped, answers, buffer, total_time) ==
    IF answers = WindowClosed
    THEN /\ session_data' = buffer
         /\ UNCHANGED <<dc_level, feedback_rows, analysis_rows>>
    ELSE /\ dc_level' = current_level
         /\ feedback_rows' =
               Append(feedback_rows, save_feedback(current_level, answers, total_time, skipped))
         /\ analysis_rows' =
               Append(analysis_rows, analyze_data(buffer, current_level, total_time, skipped))
         /\ session_data' = buffer

\* lines 605-646.  With the questionnaire answered (lines 640-646): one
\* feedback row, one analysis row computed from `buffer`, and the buffer
\* cleared.  With the window closed (lines 617-619): pygame.quit() and a
\* plain return, nothing written, the buffer kept; the caller goes on.
show_feedback(skipped, answers, buffer, total_time) ==
    IF answers = WindowClosed
    THEN /\ session_data' = buffer
         /\ UNCHANGED <<dc_level, feedback_rows, analysis_rows>>
    ELSE /\ dc_level' = current_level
         /\ feedback_rows' =
               Append(feedback_rows, save_feedback(current_level, answers, total_time, skipped))
         /\ analysis_rows' =
               Append(analysis_rows, analyze_data(buffer, current_level, total_time, skipped))
         /\ session_data' = <<>>

\* mutant of LevelAdvance: the next level keeps the note list of the last
LevelAdvanceKeepingNotes(t, comboNow, notesNow, spawnNow, elapsedNow) ==
    /\ current_level' = current_level + 1
    /\ IF current_level + 1 > LEVELS
       THEN /\ game_over' = TRUE
            /\ in_menu' = TRUE
            /\ combo' = comboNow
            /\ notes' = notesNow
            /\ last_spawn_time' = spawnNow
            /\ current_time' = elapsedNow
            /\ UNCHANGED <<dm, start_time, hits, incorrect_hits, total_paused_time>>
       ELSE /\ dm' = set_level(dm, current_level + 1)
            /\ notes' = notesNow
            /\ last_spawn_time' = 0
            /\ start_time' = t
            /\ combo' = 0
            /\ hits' = 0
            /\ incorrect_hits' = 0
            /\ total_paused_time' = 0
            /\ current_time' = 0
            /\ UNCHANGED <<game_over, in_menu>>

\* lines 591-603 / 651-663.  t is the reading of time.time() after the
\* questionnaire; comboNow, notesNow, spawnNow, elapsedNow are the values the
\* handler holds when it reaches these lines.
LevelAdvance(t, comboNow, notesNow, spawnNow, elapsedNow) ==
    /\ current_level' = current_level + 1
    /\ IF current_level + 1 > LEVELS
       THEN /\ game_over' = TRUE
            /\ in_menu' = TRUE
            /\ combo' = comboNow
            /\ notes' = notesNow
            /\ last_spawn_time' = spawnNow
            /\ current_time' = elapsedNow
            /\ UNCHANGED <<dm, start_time, hits, incorrect_hits, total_paused_time>>
       ELSE /\ dm' = set_level(dm, current_level + 1)
            /\ notes' = <<>>
            /\ last_spawn_time' = 0
            /\ start_time' = t
            /\ combo' = 0
            /\ hits' = 0
            /\ incorrect_hits' = 0
            /\ total_paused_time' = 0
            /\ current_time' = 0
            /\ UNCHANGED <<game_over, in_menu>>

----------------------------------------------------------------------------
(* Game.update (lines 551-603).                                            *)

\* mutant of UpdateRuns: the pause flag is not tested
UpdateRunsIgnoringPause == ~in_menu /\ ~game_over

\* line 553
UpdateRuns == ~paused /\ ~in_menu /\ ~game_over

\* line 554
Elapsed == now - start_time - total_paused_time

\* mutant of PastLine: a note is missed only once it is wholly below the line
PastLineWholeNote(y) == y > Half(HIT_LINE_Y + NOTE_HEIGHT)

\* line 569
PastLine(y) == y > Half(HIT_LINE_Y)

\* mutant of GraceOver: a missed note is pruned by the next update
GraceOverAtOnce(t, miss_time) == t - miss_time >= 0

\* line 578
GraceOver(t, miss_time) == t - miss_time > MISS_GRACE_MS

\* line 589
LevelDone(t) == t >= GameDurationMs

\* lines 561-571: one active note at time t
MoveNote(n, t) ==
    LET y1 == n.y + n.speed
        n1 == [n EXCEPT !.y = y1,
                        !.start_hit_time =
                            IF n.start_hit_time = None /\ y1 >= Half(HIT_LINE_Y - NOTE_HEIGHT)
                            THEN t ELSE n.start_hit_time]
    IN IF PastLine(y1) /\ n1.state = "active"
       THEN [n1 EXCEPT !.state = "missed", !.miss_time = t]
       ELSE n1

\* mutant of UpdateNotes: missed notes keep falling like active ones
RECURSIVE UpdateNotesMovesAll(_, _)
UpdateNotesMovesAll(ns, t) ==
    IF ns = <<>> THEN [kept |-> <<>>, missed |-> <<>>]
    ELSE LET n == Head(ns)
             rest == UpdateNotesMovesAll(Tail(ns), t)
         IN IF n.state = "missed" /\ t - n.miss_time > MISS_GRACE_MS
            THEN rest
            ELSE LET n1 == [n EXCEPT !.y = n.y + n.speed,
                                     !.state = IF n.y + n.speed > Half(HIT_LINE_Y)
                                               THEN "missed" ELSE n.state,
                                     !.miss_time = IF n.state = "active"
                                                      /\ n.y + n.speed > Half(HIT_LINE_Y)
                                                   THEN t ELSE n.miss_time]
                 IN [kept |-> <<n1>> \o rest.kept,
                     missed |-> IF n.state = "active" /\ n1.state = "missed"
                                THEN <<n1>> \o rest.missed ELSE rest.missed]

\* lines 560-579: the loop over notes[:] at time t.  kept: the list after
\* the loop; missed: the notes that turned missed, in loop order.
RECURSIVE UpdateNotes(_, _)
UpdateNotes(ns, t) ==
    IF ns = <<>> THEN [kept |-> <<>>, missed |-> <<>>]
    ELSE LET n == Head(ns)
             rest == UpdateNotes(Tail(ns), t)
         IN IF n.state = "active"
            THEN LET n1 == MoveNote(n, t)
                 IN [kept |-> <<n1>> \o rest.kept,
                     missed |-> IF n1.state = "missed" THEN <<n1>> \o rest.missed
                                ELSE rest.missed]
            ELSE IF n.state = "missed" /\ GraceOver(t, n.miss_time)
            THEN rest
            ELSE [kept |-> <<n>> \o rest.kept, missed |-> rest.missed]

\* mutant of ComboAfterMisses: a miss does not reset combo
ComboKeptOnMiss(c, misses) == c

\* line 572: combo after an update in which `misses` notes turned missed
ComboAfterMisses(c, misses) == IF misses > 0 THEN 0 ELSE c

\* One iteration of the loop of Game.run (lines 673-677) from update on:
\* update, then the wait of clock.tick(FPS).  After a questionnaire that the
\* window's closing ended, the draw of the same iteration raises (the
\* display is gone) and the process ends.  lane is the outcome of
\* random.randint (line 270), answers and fd the questionnaire's answers and
\* duration when the level completes, dt the frame's wait.
Frame(lane, answers, fd, dt) ==
    /\ exited' = (~running \/ (UpdateRuns /\ LevelDone(Elapsed) /\ answers = WindowClosed))
    /\ UNCHANGED <<running, started, mode, paused, pause_start_time, g_carried>>
    /\ IF UpdateRuns
       THEN LET t == Elapsed
                gen == note_generator_update(notes, last_spawn_time, t, lane,
                                             spawned + 1, get_speed(dm))
                ns0 == gen.notes
                due == Len(ns0) > Len(notes)
                upd == UpdateNotes(ns0, now)
                rows == [i \in 1 .. Len(upd.missed) |->
                            record_hit(upd.missed[i], current_level, "miss")]
                comboNow == ComboAfterMisses(combo, Len(upd.missed))
                spawnNow == gen.last_spawn_time
                done == LevelDone(t)
            IN /\ spawned' = IF due THEN spawned + 1 ELSE spawned
               /\ g_level_spawns' = IF done /\ current_level + 1 <= LEVELS THEN 0
                                     ELSE IF due THEN g_level_spawns + 1
                                     ELSE g_level_spawns
               /\ total_notes' = total_notes + Len(upd.missed)
               /\ event_rows' = event_rows \o rows
               /\ g_last' = t
               /\ IF done
                  THEN /\ show_feedback(FALSE, answers, session_data \o rows, t)
                       /\ LevelAdvance(now + fd, comboNow, upd.kept, spawnNow, t)
                       /\ now' = now + fd + dt
                       /\ g_ticked' = (current_level + 1 > LEVELS)
                       /\ g_unpaused' = dt
                       /\ lastOp' = Op("update", None,
                                       IF current_level + 1 > LEVELS THEN "gameover"
                                       ELSE "complete")
                  ELSE /\ session_data' = session_data \o rows
                       /\ combo' = comboNow
                       /\ notes' = upd.kept
                       /\ last_spawn_time' = spawnNow
                       /\ current_time' = t
                       /\ now' = now + dt
                       /\ g_ticked' = TRUE
                       /\ g_unpaused' = g_unpaused + dt
                       /\ lastOp' = Op("update", None, "run")
                       /\ UNCHANGED <<current_level, in_menu, game_over, dm, start_time,
                                      hits, incorrect_hits, total_paused_time,
                                      dc_level, feedback_rows, analysis_rows>>
       ELSE /\ now' = now + dt
            /\ lastOp' = Op("update", None, "idle")
            /\ g_unpaused' = IF paused THEN g_unpaused ELSE g_unpaused + dt
            /\ UNCHANGED <<current_level, in_menu, game_over, scoreVars, start_time,
                           total_paused_time, current_time, dm, noteVars, dataVars,
                           g_level_spawns, g_ticked, g_last>>

\* an iteration of the loop, one of the frames the budget allows
Tick(lane, answers, fd, dt) ==
    /\ ~exited
    /\ budget.frames > 0
    /\ budget' = Spend("frames")
    /\ Frame(lane, answers, fd, dt)

\* The list after k consecutive updates, the first at time t, FrameMs apart
RECURSIVE NotesAfter(_, _, _)
NotesAfter(ns, t, k) ==
    IF k = 0 THEN ns ELSE NotesAfter(UpdateNotes(ns, t).kept, t + FrameMs, k - 1)

\* k consecutive iterations of the loop of Game.run (lines 673-677) with no
\* event handled between them, in the case where the k updates only move
\* notes: none spawns a note, turns a note missed, prunes one or completes
\* the level.  The step equals k Tick steps.
RunFrames(k) ==
    LET last == Elapsed + (k - 1) * FrameMs
        after == NotesAfter(notes, now, k)
    IN /\ ~exited /\ running
       /\ budget.runs > 0
       /\ budget' = Spend("runs")
       /\ UpdateRuns
       /\ ~SpawnDue(last, last_spawn_time)
       /\ ~LevelDone(last)
       /\ \A i \in DOMAIN notes : notes[i].state = "active"
       /\ Len(after) = Len(notes)
       /\ \A i \in DOMAIN after : after[i].state = "active"
       /\ notes' = after
       /\ current_time' = last
       /\ now' = now + k * FrameMs
       /\ g_last' = last
       /\ g_ticked' = TRUE
       /\ g_unpaused' = g_unpaused + k * FrameMs
       /\ lastOp' = Op("frames", None, "run")
       /\ UNCHANGED <<flagVars, current_level, scoreVars, start_time, pause_start_time,
                      total_paused_time, dm, last_spawn_time, spawned, dataVars, g_carried,
                      g_level_spawns>>

----------------------------------------------------------------------------
(* Game.skip_level (lines 648-663) and Game.return_to_menu (665-669).      *)

\* the feedback questionnaire takes d ms; before init_game the attributes
\* read by show_feedback do not exist and the call raises AttributeError.
\* After a questionnaire that the window's closing ended, the handler goes
\* on to its end; the update of the same iteration finds a level that has
\* just begun, the menu or the end of the game, and the draw after it raises.
skip_level(d, answers) ==
    IF ~started
    THEN /\ exited' = TRUE
         /\ lastOp' = Op("skip", None, "crash")
         /\ now' = now + d
         /\ UNCHANGED <<running, started, mode, paused, in_menu, game_over, current_level,
                        scoreVars, clockVars, dm, noteVars, dataVars, ghostVars>>
    ELSE /\ show_feedback(TRUE, answers, session_data, current_time)
         /\ LevelAdvance(now + d, combo, notes, last_spawn_time, current_time)
         /\ now' = now + d
         /\ lastOp' = Op("skip", None, IF current_level + 1 > LEVELS THEN "gameover" ELSE "next")
         /\ IF current_level + 1 > LEVELS
            THEN /\ g_unpaused' = IF paused THEN g_unpaused ELSE g_unpaused + d
                 /\ UNCHANGED <<g_carried, g_level_spawns, g_ticked, g_last>>
            ELSE /\ g_unpaused' = 0
                 /\ g_carried' = paused
                 /\ g_level_spawns' = 0
                 /\ g_ticked' = FALSE
                 /\ UNCHANGED g_last
         /\ exited' = (answers = WindowClosed)
         /\ UNCHANGED <<running, started, mode, paused, pause_start_time,
                        total_notes, spawned, event_rows>>

return_to_menu(d, answers) ==
    IF ~started
    THEN /\ exited' = TRUE
         /\ lastOp' = Op("menu", None, "crash")
         /\ now' = now + d
         /\ UNCHANGED <<running, started, mode, paused, in_menu, game_over, current_level,
                        scoreVars, clockVars, dm, noteVars, dataVars, ghostVars>>
    ELSE /\ show_feedback(TRUE, answers, session_data, current_time)
         /\ in_menu' = TRUE
         /\ game_over' = TRUE
         /\ now' = now + d
         /\ lastOp' = Op("menu", None, "menu")
         /\ g_unpaused' = IF paused THEN g_unpaused ELSE g_unpaused + d
         /\ exited' = (answers = WindowClosed)
         /\ UNCHANGED <<running, started, mode, paused, current_level, scoreVars,
                        clockVars, dm, noteVars, event_rows, g_carried, g_level_spawns,
                        g_ticked, g_last>>

----------------------------------------------------------------------------
(* Game.init_game (lines 291-327).                                         *)

init_game(levels, t) ==
    /\ dm' = set_level(set_levels(DifficultyManager, levels), 1)
    /\ current_level' = 1
    /\ notes' = <<>>
    /\ last_spawn_time' = 0
    /\ session_data' = <<>>
    /\ dc_level' = 1
    /\ event_rows' = <<>>
    /\ feedback_rows' = <<>>
    /\ analysis_rows' = <<>>
    /\ start_time' = t
    /\ combo' = 0
    /\ hits' = 0
    /\ incorrect_hits' = 0
    /\ total_notes' = 0
    /\ paused' = FALSE
    /\ game_over' = FALSE
    /\ pause_start_time' = None
    /\ total_paused_time' = 0
    /\ current_time' = 0

----------------------------------------------------------------------------
(* Game.handle_input (lines 329-368), one action per event handled.        *)

\* pygame.QUIT (lines 332-333)
QuitEvent ==
    /\ ~exited /\ running
    /\ budget.quits > 0
    /\ budget' = Spend("quits")
    /\ running' = FALSE
    /\ lastOp' = Op("quit", None, "event")
    /\ UNCHANGED <<now, exited, started, mode, paused, in_menu, game_over, current_level,
                   scoreVars, clockVars, dm, noteVars, dataVars, ghostVars>>

\* mutant of ResumedTotal: the pause just ended is not added
ResumedTotalUnchanged(total, t, pause_start) == total

\* lines 342-343: total_paused_time after a resume at time t
ResumedTotal(total, t, pause_start) == total + (t - pause_start)

\* K_SPACE (lines 336-344)
KeySpace ==
    /\ ~exited
    /\ budget.toggles > 0
    /\ budget' = Spend("toggles")
    /\ IF ~in_menu /\ ~game_over
       THEN /\ paused' = ~paused
            /\ IF ~paused
               THEN /\ pause_start_time' = now
                    /\ UNCHANGED total_paused_time
               ELSE /\ total_paused_time' = ResumedTotal(total_paused_time, now, pause_start_time)
                    /\ pause_start_time' = None
            /\ lastOp' = Op("space", None, IF ~paused THEN "pause" ELSE "resume")
       ELSE /\ lastOp' = Op("space", None, "ignored")
            /\ UNCHANGED <<paused, pause_start_time, total_paused_time>>
    /\ UNCHANGED <<now, running, exited, started, mode, in_menu, game_over, current_level,
                   scoreVars, start_time, current_time, dm, noteVars, dataVars, ghostVars>>

\* K_s answered 'y' (lines 345-348); d is the time spent in the prompts
KeySkip(d, answers) ==
    /\ ~exited
    /\ budget.skips > 0
    /\ budget' = Spend("skips")
    /\ skip_level(d, answers)

\* K_m answered 'y' (lines 349-352)
KeyMenu(d, answers) ==
    /\ ~exited
    /\ budget.menus > 0
    /\ budget' = Spend("menus")
    /\ return_to_menu(d, answers)

\* K_q answered 'y' (lines 353-356)
KeyQuit(d) ==
    /\ ~exited /\ running
    /\ budget.quits > 0
    /\ budget' = Spend("quits")
    /\ running' = FALSE
    /\ now' = now + d
    /\ lastOp' = Op("quit", None, "key")
    /\ g_unpaused' = IF paused THEN g_unpaused ELSE g_unpaused + d
    /\ UNCHANGED <<exited, started, mode, paused, in_menu, game_over, current_level,
                   scoreVars, clockVars, dm, noteVars, dataVars, g_carried, g_level_spawns,
                   g_ticked, g_last>>

\* K_s, K_m or K_q answered 'n' after d ms (confirm_action, lines 370-391):
\* only time passes
Decline(d, field) ==
    /\ ~exited
    /\ budget[field] > 0
    /\ budget' = Spend(field)
    /\ now' = now + d
    /\ lastOp' = Op("decline", None, "n")
    /\ g_unpaused' = IF paused THEN g_unpaused ELSE g_unpaused + d
    /\ UNCHANGED <<engineVars, g_carried, g_level_spawns, g_ticked, g_last>>

\* The window is closed inside the prompt of K_s, K_m or K_q:
\* confirm_action calls pygame.quit() and exit() (lines 376-378).  Nothing
\* is written and the process ends.
PromptClosed ==
    /\ ~exited
    /\ budget.closes > 0
    /\ budget' = Spend("closes")
    /\ exited' = TRUE
    /\ lastOp' = Op("closed", None, "exit")
    /\ UNCHANGED <<now, running, started, mode, paused, in_menu, game_over, current_level,
                   scoreVars, clockVars, dm, noteVars, dataVars, ghostVars>>

\* K_1 / K_2 in the menu (lines 359-364); d is the time spent entering the name
StartGame(m, levels, d) ==
    /\ ~exited
    /\ in_menu
    /\ budget.sessions > 0
    /\ budget' = Spend("sessions")
    /\ mode' = m
    /\ in_menu' = FALSE
    /\ started' = TRUE
    /\ init_game(levels, now + d)
    /\ now' = now + d
    /\ spawned' = 0
    /\ lastOp' = Op("start", None, m)
    /\ g_unpaused' = 0
    /\ g_carried' = FALSE
    /\ g_level_spawns' = 0
    /\ g_ticked' = FALSE
    /\ UNCHANGED <<running, exited, g_last>>

\* a lane key outside the menu (lines 365-368)
KeyLane(lane) ==
    /\ ~exited
    /\ ~in_menu
    /\ budget.presses > 0
    /\ budget' = Spend("presses")
    /\ handle_note_hit(lane)
    /\ UNCHANGED <<now, ghostVars>>

----------------------------------------------------------------------------
(* The program.                                                            *)

\* Game.__init__ (lines 276-289); attributes set only by init_game hold
\* placeholder values until started
Init ==
    /\ now = 0
    /\ running = TRUE
    /\ exited = FALSE
    /\ started = FALSE
    /\ mode = "none"
    /\ paused = FALSE
    /\ in_menu = TRUE
    /\ game_over = FALSE
    /\ current_level = 0
    /\ combo = 0 /\ hits = 0 /\ incorrect_hits = 0 /\ total_notes = 0
    /\ start_time = 0 /\ pause_start_time = None /\ total_paused_time = 0
    /\ current_time = 0
    /\ dm = DifficultyManager
    /\ notes = <<>> /\ last_spawn_time = 0 /\ spawned = 0
    /\ session_data = <<>> /\ dc_level = 0
    /\ event_rows = <<>> /\ feedback_rows = <<>> /\ analysis_rows = <<>>
    /\ lastOp = Op("init", None, "init")
    /\ g_unpaused = 0 /\ g_carried = FALSE /\ g_ticked = FALSE /\ g_last = 0
    /\ g_level_spawns = 0
    /\ budget \in Budgets

Next ==
    \/ \E m \in budget.modes : \E levels \in LevelsOfMode(m) : StartGame(m, levels, FrameMs)
    \/ \E lane \in LanesUsed : \E answers \in FeedbackAnswers :
          Tick(lane, answers, FrameMs, FrameMs)
    \/ RunFrames(FastFrames)
    \/ \E lane \in LanesUsed : KeyLane(lane)
    \/ KeySpace
    \/ \E answers \in FeedbackAnswers : KeySkip(FrameMs, answers)
    \/ \E answers \in FeedbackAnswers : KeyMenu(FrameMs, answers)
    \/ KeyQuit(FrameMs)
    \/ Decline(SPAWN_INTERVAL_MS, "stalls")
    \/ Decline(GameDurationMs, "waits")
    \/ QuitEvent
    \/ PromptClosed

Spec == Init /\ [][Next]_vars

----------------------------------------------------------------------------
(* Direct calls of DifficultyManager.set_level (lines 68-75) and           *)
(* DataCollector.analyze_data (lines 172-254) on inputs drawn from bounded *)
(* sets: dm holds the manager, session_data the buffer.                    *)

\* a Note of lane l as handle_note_hit passes it to record_hit on a hit at
\* position y, and as update passes it on a miss
HitNote(l, y) == [Note(1, l, Half(BASIC_SPEED), Half(y)) EXCEPT !.state = "hit", !.hit_time = 40,
                                                        !.start_hit_time = 10]
MissNote(l) == [Note(2, l, Half(BASIC_SPEED), Half(HIT_LINE_Y + 2)) EXCEPT !.state = "missed",
                                                                    !.miss_time = 50,
                                                                    !.start_hit_time = 10]
IncorrectNote(l) == [Note(0, l, Half(BASIC_SPEED), Half(HIT_LINE_Y)) EXCEPT !.hit_time = 40]

\* per Hit rows and per Miss rows for each of the lanes 0 .. lanes-1, as
\* record_hit writes them, the Hit rows of a lane first or last
RECURSIVE LaneRows(_, _, _)
LaneRows(l, per, hitsFirst) ==
    IF per = 0 THEN <<>>
    ELSE LET h == record_hit(HitNote(l, HIT_LINE_Y - 10), 1, "hit")
             m == record_hit(MissNote(l), 1, "miss")
         IN (IF hitsFirst THEN <<h, m>> ELSE <<m, h>>) \o LaneRows(l, per - 1, hitsFirst)

RECURSIVE EvenBuffer(_, _, _)
EvenBuffer(lanes, per, hitsFirst) ==
    IF lanes = 0 THEN <<>>
    ELSE EvenBuffer(lanes - 1, per, hitsFirst) \o LaneRows(lanes - 1, per, hitsFirst)

RECURSIVE IncorrectRows(_)
IncorrectRows(n) ==
    IF n = 0 THEN <<>>
    ELSE Append(IncorrectRows(n - 1), record_hit(IncorrectNote(0), 1, "incorrect"))

CallBuffers ==
    {IncorrectRows(n) \o EvenBuffer(lanes, per, hitsFirst) :
        n \in 0 .. 1, lanes \in 1 .. LaneCount, per \in 1 .. MaxPerLane,
        hitsFirst \in BOOLEAN}

CallLevelLists == {LevelList, Reversed(LevelList), <<>>}

CallLevels == (1 - LEVELS - OutOfRange) .. (LEVELS + OutOfRange)

InitCalls ==
    /\ now = 0
    /\ running = TRUE
    /\ exited = FALSE
    /\ started = FALSE
    /\ mode = "none"
    /\ paused = FALSE
    /\ in_menu = TRUE
    /\ game_over = FALSE
    /\ current_level = 0
    /\ combo = 0 /\ hits = 0 /\ incorrect_hits = 0 /\ total_notes = 0
    /\ start_time = 0 /\ pause_start_time = None /\ total_paused_time = 0
    /\ current_time = 0
    /\ \E levels \in CallLevelLists : dm = set_levels(DifficultyManager, levels)
    /\ notes = <<>> /\ last_spawn_time = 0 /\ spawned = 0
    /\ session_data \in CallBuffers
    /\ dc_level = 1
    /\ event_rows = session_data /\ feedback_rows = <<>> /\ analysis_rows = <<>>
    /\ lastOp = Op("init", None, "init")
    /\ g_unpaused = 0 /\ g_carried = FALSE /\ g_ticked = FALSE /\ g_last = 0
    /\ g_level_spawns = 0
    /\ budget = NoBudget

\* difficulty_manager.set_level(level); the outcome is how the call ends
CallSetLevel(level) ==
    /\ dm' = set_level(dm, level)
    /\ lastOp' = Op("set_level", level,
                    IF set_level_raises(dm, level) THEN "IndexError" ELSE "returned")
    /\ UNCHANGED <<now, flagVars, current_level, scoreVars, clockVars, noteVars, dataVars,
                   ghostVars, budget>>

\* data_collector.analyze_data(total_time, exited) on the buffer
CallAnalyze(total_time, exited_flag) ==
    /\ session_data # <<>>
    /\ analysis_rows' =
          Append(analysis_rows, analyze_data(session_data, dc_level, total_time, exited_flag))
    /\ session_data' = <<>>
    /\ lastOp' = Op("analyze_data", None, "returned")
    /\ UNCHANGED <<now, flagVars, current_level, scoreVars, clockVars, dm, noteVars,
                   dc_level, event_rows, feedback_rows, ghostVars, budget>>

NextCalls ==
    \/ \E level \in CallLevels : CallSetLevel(level)
    \/ CallAnalyze(GameDurationMs, FALSE)

SpecCalls == InitCalls /\ [][NextCalls]_vars

----------------------------------------------------------------------------
(* A normal game left to run: the loop of Game.run (lines 673-677) iterates *)
(* with no input until the last level completes or the window is closed    *)
(* in a questionnaire.  The loop never stops iterating of itself while     *)
(* running is true, which is the fairness of SpecLive.                     *)

LiveBudget == [NoBudget EXCEPT !.modes = {"normal"}]

InitLive ==
    /\ now = 0
    /\ running = TRUE
    /\ exited = FALSE
    /\ started = FALSE
    /\ mode = "none"
    /\ paused = FALSE
    /\ in_menu = TRUE
    /\ game_over = FALSE
    /\ current_level = 0
    /\ combo = 0 /\ hits = 0 /\ incorrect_hits = 0 /\ total_notes = 0
    /\ start_time = 0 /\ pause_start_time = None /\ total_paused_time = 0
    /\ current_time = 0
    /\ dm = DifficultyManager
    /\ notes = <<>> /\ last_spawn_time = 0 /\ spawned = 0
    /\ session_data = <<>> /\ dc_level = 0
    /\ event_rows = <<>> /\ feedback_rows = <<>> /\ analysis_rows = <<>>
    /\ lastOp = Op("init", None, "init")
    /\ g_unpaused = 0 /\ g_carried = FALSE /\ g_ticked = FALSE /\ g_last = 0
    /\ g_level_spawns = 0
    /\ budget = LiveBudget

\* an iteration of the loop while a level is being played
FrameLive(answers) ==
    /\ ~exited
    /\ started /\ UpdateRuns
    /\ UNCHANGED budget
    /\ Frame(0, answers, FrameMs, FrameMs)

NextLive ==
    \/ StartGame("normal", LevelList, FrameMs)
    \/ \E answers \in FeedbackAnswers : FrameLive(answers)

\* the loop comes round again: the clock of the next iteration is one frame on
LoopIterates == ~exited /\ started /\ UpdateRuns /\ now' = now + FrameMs

SpecLive == InitLive /\ [][NextLive]_vars /\ WF_now(LoopIterates)

----------------------------------------------------------------------------
(* Properties.                                                             *)

\* the judgment window [judgmentLineY - markerHeight, judgmentLineY], half-pixels
WindowLow == Half(HIT_LINE_Y) - Half(NOTE_HEIGHT)
WindowHigh == Half(HIT_LINE_Y)

\* an Active marker of lane l inside the judgment window
Eligible(n, l) ==
    n.lane = l /\ n.state = "active" /\ WindowLow <= n.y /\ n.y <= WindowHigh

EligibleAt(l) == {i \in DOMAIN notes : Eligible(notes[i], l)}

FirstEligible(l) == CHOOSE i \in EligibleAt(l) : \A j \in EligibleAt(l) : i <= j

\* the rows a step appends to the event CSV
NewEvents == SubSeq(event_rows', Len(event_rows) + 1, Len(event_rows'))

PressStep == lastOp'.op = "press"
RunningUpdateStep == lastOp'.op = "update" /\ lastOp'.res \in {"run", "complete", "gameover"}

\* C1: a press in lane L while some Active marker of L is inside the judgment
\* window removes exactly the first such marker of the active set, adds 1 to
\* combo and to the hit counter, records exactly one event, a Hit for that
\* marker, and leaves every other marker as it was.
C1_HitJudgment ==
    [][ (PressStep /\ EligibleAt(lastOp'.lane) # {}) =>
            LET l == lastOp'.lane
                i == FirstEligible(l)
            IN /\ lastOp'.res = "hit"
               /\ notes' = RemoveAt(notes, i)
               /\ combo' = combo + 1
               /\ hits' = hits + 1
               /\ incorrect_hits' = incorrect_hits
               /\ Len(NewEvents) = 1
               /\ NewEvents[1].hit_status = "hit"
               /\ NewEvents[1].note = notes[i].id
               /\ NewEvents[1].lane = l
               /\ session_data' = Append(session_data, NewEvents[1]) ]_vars

\* C1 witness: a press has hit the first of two markers that were both inside
\* the window of its lane; the second is still there, Active.
C1_Witness ==
    /\ lastOp.op = "press" /\ lastOp.res = "hit"
    /\ EligibleAt(lastOp.lane) # {}

\* C2: a press in a lane with no Active marker inside the judgment window is
\* Incorrect: one Incorrect event is recorded, combo becomes 0, the incorrect
\* counter grows by 1, and the active set is left exactly as it was.
C2_IncorrectPress ==
    [][ (PressStep /\ EligibleAt(lastOp'.lane) = {}) =>
            /\ lastOp'.res = "incorrect"
            /\ notes' = notes
            /\ combo' = 0
            /\ incorrect_hits' = incorrect_hits + 1
            /\ hits' = hits
            /\ Len(NewEvents) = 1
            /\ NewEvents[1].hit_status = "incorrect"
            /\ NewEvents[1].lane = lastOp'.lane ]_vars

\* C2 witness: the second incorrect press of a level, made with markers in
\* the active set.
C2_Witness ==
    /\ lastOp.op = "press" /\ lastOp.res = "incorrect"
    /\ incorrect_hits = 2
    /\ notes # <<>>

\* C3: a press that follows a hit in the same lane at once (the marker just
\* hit would still be inside the window), with no other Active marker of the
\* lane inside the window, is a Duplicate: a Duplicate event is recorded and
\* no marker, combo, hit counter or incorrect counter changes.
C3_DuplicatePress ==
    [][ ( /\ lastOp.op = "press" /\ lastOp.res = "hit"
          /\ PressStep /\ lastOp'.lane = lastOp.lane
          /\ EligibleAt(lastOp.lane) = {} ) =>
            /\ lastOp'.res = "duplicate"
            /\ Len(NewEvents) = 1
            /\ NewEvents[1].hit_status = "duplicated"
            /\ UNCHANGED <<notes, combo, hits, incorrect_hits>> ]_vars

\* the Active markers that the coming update moves past the judgment line
Crossing == {i \in DOMAIN notes :
                notes[i].state = "active" /\ notes[i].y + notes[i].speed > WindowHigh}

MissEventsFor(id) ==
    {k \in DOMAIN NewEvents : NewEvents[k].hit_status = "miss" /\ NewEvents[k].note = id}

\* C4: a running update turns every Active marker that it moves past the
\* judgment line into Missed in that same update (resolvedAt = now), resets
\* combo to 0 and records exactly one Miss event for it, and records no other
\* Miss event; a Missed marker is always below the line and has its
\* resolvedAt set, and an Active marker is never below the line.
C4_MissTransition ==
    /\ [](\A i \in DOMAIN notes :
            /\ notes[i].state = "missed" =>
                  notes[i].y > WindowHigh /\ notes[i].miss_time # None
            /\ notes[i].state = "active" => notes[i].y <= WindowHigh)
    /\ [][ RunningUpdateStep =>
            /\ \A i \in Crossing :
                  /\ Cardinality(MissEventsFor(notes[i].id)) = 1
                  /\ combo' = 0
                  /\ lastOp'.res # "complete" =>
                        \E j \in DOMAIN notes' :
                            /\ notes'[j].id = notes[i].id
                            /\ notes'[j].state = "missed"
                            /\ notes'[j].miss_time = now
                            /\ notes'[j].y = notes[i].y + notes[i].speed
            /\ Cardinality({k \in DOMAIN NewEvents : NewEvents[k].hit_status = "miss"})
                  = Cardinality(Crossing) ]_vars

\* C4 witness: the update just made has turned a marker Missed.
C4_Witness ==
    /\ lastOp.op = "update" /\ lastOp.res = "run"
    /\ combo = 0
    /\ \E i \in DOMAIN notes :
          notes[i].state = "missed" /\ notes[i].miss_time + FrameMs = now

HitOrMissEvents(id) ==
    {k \in DOMAIN event_rows :
        event_rows[k].note = id /\ event_rows[k].hit_status \in {"hit", "miss"}}

\* C5: no step changes a Missed marker (state, position or anything else)
\* while it stays in the active set, a marker's state changes only from
\* Active, a marker that left the active set never returns, no marker in the
\* active set is Hit, and a marker has at most one Hit-or-Miss event.
C5_TerminalStates ==
    /\ [](\A i \in DOMAIN notes :
            /\ notes[i].state \in {"active", "missed"}
            /\ Cardinality(HitOrMissEvents(notes[i].id)) <= 1
            /\ notes[i].state = "active" => HitOrMissEvents(notes[i].id) = {})
    /\ [](\A id \in 1 .. spawned : Cardinality(HitOrMissEvents(id)) <= 1)
    /\ [][ \A j \in DOMAIN notes' :
              \/ \E i \in DOMAIN notes :
                    /\ notes[i].id = notes'[j].id
                    /\ notes[i].state = "missed" => notes'[j] = notes[i]
                    /\ notes'[j].state # notes[i].state => notes[i].state = "active"
              \/ notes'[j].id > spawned ]_vars

\* C5 witness: a press was made in the lane of a marker that is Missed, after
\* a later update had already left that marker alone.
C5_Witness ==
    /\ lastOp.op = "press"
    /\ \E i \in DOMAIN notes :
          /\ notes[i].state = "missed"
          /\ notes[i].lane = lastOp.lane
          /\ notes[i].miss_time + FrameMs < now

\* C6: the effective elapsed time of the current level, as the engine
\* computes it, is never negative.
C6_ElapsedNonNegative == current_time >= 0

\* C7: within a level, the elapsed time computed by a running update is never
\* less than the one computed by the previous running update, and it equals
\* the wall time spent not paused since the level began: a pause followed by
\* a resume adds nothing.  (A level that began while the game was paused is
\* outside the second part: its pause did not begin within the level.)
C7_ElapsedMonotonic ==
    [][ (RunningUpdateStep \/ lastOp'.op = "frames") =>
            /\ g_ticked => g_last' >= g_last
            /\ (RunningUpdateStep /\ ~g_carried) => g_last' = g_unpaused ]_vars

\* C7 witness: a running update has computed a positive elapsed time after a
\* pause that began in its level and lasted some time was ended.
C7_Witness ==
    /\ lastOp.op = "update" /\ lastOp.res = "run"
    /\ total_paused_time > 0
    /\ ~g_carried
    /\ g_last > 0
    /\ g_last = current_time

\* C8: while the game is paused an update changes nothing: no marker moves,
\* is spawned, turns Missed or is pruned, no event or summary is recorded,
\* the level does not complete and the elapsed time keeps its value.
C8_PausedUpdate ==
    [][ (paused /\ lastOp'.op \in {"update", "frames"}) =>
            /\ lastOp'.res = "idle"
            /\ UNCHANGED <<notes, last_spawn_time, spawned, current_time, current_level,
                           scoreVars, dataVars, start_time, total_paused_time, dm,
                           paused, in_menu, game_over>> ]_vars

\* C8 witness: an update was made while the game was paused with a marker in
\* the active set.
C8_Witness ==
    /\ paused /\ ~in_menu
    /\ lastOp.op = "update" /\ lastOp.res = "idle"
    /\ notes # <<>>

CompletionSummaries(level) ==
    {k \in DOMAIN analysis_rows :
        analysis_rows[k].level = level /\ analysis_rows[k].exit_rate = 0}

\* C9: a running update that computes an elapsed time >= the level duration
\* writes exactly one feedback row and one summary (exited = false) for the
\* current level, then starts the next level (number + 1, elapsed time 0,
\* empty active set, combo, hit and incorrect counters 0) or, after the last
\* level, ends the game; a running update below the duration writes none and
\* keeps the level; no level gets two such summaries; and once the game is
\* over an update changes nothing.
C9_LevelCompletion ==
    /\ [](\A level \in 1 .. LEVELS + 1 : Cardinality(CompletionSummaries(level)) <= 1)
    /\ [][ RunningUpdateStep =>
            IF g_last' >= GameDurationMs
            THEN /\ Len(analysis_rows') = Len(analysis_rows) + 1
                 /\ analysis_rows'[Len(analysis_rows')].level = current_level
                 /\ analysis_rows'[Len(analysis_rows')].exit_rate = 0
                 /\ SubSeq(analysis_rows', 1, Len(analysis_rows)) = analysis_rows
                 /\ Len(feedback_rows') = Len(feedback_rows) + 1
                 /\ feedback_rows'[Len(feedback_rows')].level = current_level
                 /\ feedback_rows'[Len(feedback_rows')].exited = FALSE
                 /\ current_level' = current_level + 1
                 /\ IF current_level < LEVELS
                    THEN /\ current_time' = 0
                         /\ notes' = <<>>
                         /\ combo' = 0 /\ hits' = 0 /\ incorrect_hits' = 0
                         /\ ~game_over' /\ ~in_menu'
                         /\ dm'.current_level = current_level + 1
                    ELSE game_over' /\ in_menu'
            ELSE UNCHANGED <<analysis_rows, feedback_rows, current_level, game_over,
                             in_menu>> ]_vars
    /\ [][ (game_over /\ lastOp'.op \in {"update", "frames"}) =>
            /\ lastOp'.res = "idle"
            /\ UNCHANGED <<notes, spawned, current_time, current_level, scoreVars,
                           dataVars, game_over, in_menu>> ]_vars

\* a step made by K_s or K_m answered 'y'
AbandonStep == lastOp'.op \in {"skip", "menu"}

\* C10: every confirmed skip or return to menu of a level in progress writes
\* one feedback row and one summary, both with exited = true and the number
\* of the level that was current, the summary computed from the events
\* buffered in that level; only then the level number changes or the game
\* returns to the menu.
C10_Abandonment ==
    [][ (AbandonStep /\ ~in_menu /\ ~game_over) =>
            /\ Len(feedback_rows') = Len(feedback_rows) + 1
            /\ SubSeq(feedback_rows', 1, Len(feedback_rows)) = feedback_rows
            /\ feedback_rows'[Len(feedback_rows')].level = current_level
            /\ feedback_rows'[Len(feedback_rows')].exited = TRUE
            /\ Len(analysis_rows') = Len(analysis_rows) + 1
            /\ SubSeq(analysis_rows', 1, Len(analysis_rows)) = analysis_rows
            /\ analysis_rows'[Len(analysis_rows')].level = current_level
            /\ analysis_rows'[Len(analysis_rows')].exit_rate = 1
            /\ analysis_rows'[Len(analysis_rows')].window = session_data
            /\ session_data' = <<>>
            /\ IF lastOp'.op = "skip"
               THEN current_level' = current_level + 1
               ELSE in_menu' /\ game_over' /\ current_level' = current_level ]_vars

\* C11: when the main loop has stopped on a quit (the window's QUIT event or
\* K_q answered 'y') observed while a level was in progress, a summary with
\* exited = true exists for the current level and no recorded event is left
\* in the buffer.
C11_QuitAbandons ==
    (exited /\ ~running /\ started /\ ~in_menu /\ ~game_over) =>
        /\ session_data = <<>>
        /\ \E k \in DOMAIN analysis_rows :
              analysis_rows[k].level = current_level /\ analysis_rows[k].exit_rate = 1

\* the windows of the summaries written so far, one after the other
RECURSIVE Windows(_)
Windows(rows) ==
    IF rows = <<>> THEN <<>> ELSE Head(rows).window \o Windows(Tail(rows))

\* C12: the windows of the summaries of a session, in order and followed by
\* the buffer, are exactly the events recorded since the session began: each
\* window is what was recorded since the previous summary and no event is in
\* two windows; every event of a window carries the level number of its
\* summary; every summary is computed from its window; and the buffer is
\* empty right after every summary.
C12_SummaryWindows ==
    /\ [](Windows(analysis_rows) \o session_data = event_rows)
    /\ [](\A k \in DOMAIN analysis_rows :
            LET row == analysis_rows[k] IN
            /\ \A i \in DOMAIN row.window : row.window[i].level = row.level
            /\ row = analyze_data(row.window, row.level, row.game_duration,
                                  row.exit_rate = 1))
    /\ [][ Len(analysis_rows') > Len(analysis_rows) =>
            /\ Len(analysis_rows') = Len(analysis_rows) + 1
            /\ session_data' = <<>> ]_vars

\* C12 witness: two summaries of one session, each over a window that is not
\* empty.
C12_Witness ==
    /\ Len(analysis_rows) >= 2
    /\ analysis_rows[1].window # <<>>
    /\ analysis_rows[2].window # <<>>

\* C13: one call of the scheduler's update adds no marker or one, never
\* more, however many spawn intervals have elapsed; it adds one exactly when
\* currentTime - lastSpawnTime >= interval and then sets lastSpawnTime to
\* currentTime; the new marker is Active, at position 0, in a lane of
\* 0..LaneCount-1; the rest of the active set is untouched.  Stated of the
\* call each reachable state would make, and of every running update made.
C13_SpawnScheduler ==
    /\ [](\A lane \in Lanes :
            LET r == note_generator_update(notes, last_spawn_time, Elapsed, lane,
                                           spawned + 1, get_speed(dm))
                n == Len(notes)
            IN IF Elapsed - last_spawn_time >= SPAWN_INTERVAL_MS
               THEN /\ Len(r.notes) = n + 1
                    /\ SubSeq(r.notes, 1, n) = notes
                    /\ r.notes[n + 1].state = "active"
                    /\ r.notes[n + 1].y = 0
                    /\ r.notes[n + 1].lane \in 0 .. LaneCount - 1
                    /\ r.last_spawn_time = Elapsed
               ELSE r.notes = notes /\ r.last_spawn_time = last_spawn_time)
    /\ [][ RunningUpdateStep =>
            /\ spawned' = spawned + (IF Elapsed - last_spawn_time >= SPAWN_INTERVAL_MS
                                     THEN 1 ELSE 0)
            /\ lastOp'.res = "run" =>
                  /\ Cardinality({j \in DOMAIN notes' : notes'[j].id > spawned})
                        = spawned' - spawned
                  /\ last_spawn_time' = IF spawned' > spawned THEN Elapsed
                                        ELSE last_spawn_time
                  /\ \A j \in DOMAIN notes' :
                        notes'[j].id > spawned =>
                            /\ notes'[j].state = "active"
                            /\ notes'[j].y = 0 + notes'[j].speed
                            /\ notes'[j].lane \in 0 .. LaneCount - 1 ]_vars

\* C13 witness: an update made when two spawn intervals had elapsed since
\* the last spawn has added one marker, the only one so far.
C13_Witness ==
    /\ lastOp.op = "update" /\ lastOp.res = "run"
    /\ current_time >= 2 * SPAWN_INTERVAL_MS
    /\ last_spawn_time = current_time
    /\ spawned = 1
    /\ Len(notes) = 1

\* a level is being played and its clock has been read by a running update
LevelRunning == started /\ ~in_menu /\ ~game_over /\ g_ticked

\* C14 as claimed: at every elapsed time T of a level run, the number of
\* markers spawned in the level differs from floor(T / I) by at most 1.
C14_SpawnCadence ==
    LevelRunning =>
        Abs(g_level_spawns - (current_time \div SPAWN_INTERVAL_MS)) <= 1

\* C14 amended: the number of markers spawned in a level by elapsed time T is
\* never more than floor(T / I): every spawn comes a full interval or more
\* after the one before (the first after the level's start), and after a
\* running update no spawn is overdue (T - lastSpawnTime < I).  It may fall
\* short of floor(T / I) by any amount: a late update spawns one marker and
\* restarts the interval at its own time.
C14_SpawnCadenceAmended ==
    LevelRunning =>
        /\ g_level_spawns * SPAWN_INTERVAL_MS <= last_spawn_time
        /\ g_level_spawns > 0 =>
              /\ last_spawn_time <= current_time
              /\ g_level_spawns <= current_time \div SPAWN_INTERVAL_MS
        /\ current_time - last_spawn_time < SPAWN_INTERVAL_MS

\* C14 witness: after a stall of three intervals one marker has been
\* spawned where floor(T / I) is 3.
C14_Witness ==
    /\ LevelRunning
    /\ lastOp.op = "update" /\ lastOp.res = "run"
    /\ g_level_spawns = 1
    /\ current_time \div SPAWN_INTERVAL_MS >= 3

\* C15: selecting a level number below 1 or beyond the number of declared
\* levels ends in an error outcome; the manager is never left running with a
\* speed after such a call returns.
C15_OutOfRangeLevel ==
    [][ ( /\ lastOp'.op = "set_level"
          /\ (lastOp'.lane < 1 \/ lastOp'.lane > Len(dm.levels)) ) =>
            lastOp'.res # "returned" ]_vars

\* the speed of level n by the linear formula, in half-pixels per update
LinearSpeed(n) == 2 * BASIC_SPEED + (n - 1) * LEVEL_SPEED_ACCR_HALVES

C17_ReactionDistance ==
    /\ [](\A k \in DOMAIN event_rows :
            LET row == event_rows[k] IN
            /\ row.hit_status = "hit" =>
                  row.reaction_distance \in 0 .. NOTE_HEIGHT
            /\ row.hit_status = "incorrect" => row.reaction_distance = 0
            /\ row.reaction_distance = None => row.hit_status = "miss")
    /\ [][ (PressStep /\ lastOp'.res = "hit") =>
            2 * NewEvents[1].reaction_distance
                = Abs(notes[FirstEligible(lastOp'.lane)].y - Half(HIT_LINE_Y)) ]_vars

\* the buffer holds the same number (at least one) of Hit events and of Miss
\* events in each of the lanes 0 .. lanes-1 and none in the other lanes
EvenlySplit(data, lanes) ==
    \A l \in Lanes :
        LET h == CountRows(data, {"hit"}, {l})
            m == CountRows(data, {"miss"}, {l})
        IN IF l < lanes
           THEN h >= 1 /\ h = m /\ h = CountRows(data, {"hit"}, {0})
           ELSE h = 0 /\ m = 0

\* C18: the summary of a buffer of k Hit and k Miss events split evenly
\* over L lanes, whatever other events it holds, has overall hit rate 1/2
\* and hit rate 1/2 for each of the L lanes.
C18_HitRateHalf ==
    \A k \in DOMAIN analysis_rows :
        \A lanes \in 1 .. LaneCount :
            EvenlySplit(analysis_rows[k].window, lanes) =>
                /\ analysis_rows[k].hit_rate = <<1, 2>>
                /\ \A l \in 0 .. lanes - 1 :
                      analysis_rows[k].lane_hit_rates[l] = <<1, 2>>

\* C18 witness: a summary of MaxPerLane Hit and Miss events in each of the
\* four lanes together with an Incorrect event.
C18_Witness ==
    /\ lastOp.op = "analyze_data"
    /\ analysis_rows # <<>>
    /\ EvenlySplit(analysis_rows[1].window, LaneCount)
    /\ CountRows(analysis_rows[1].window, {"hit"}, Lanes) = LaneCount * MaxPerLane
    /\ CountRows(analysis_rows[1].window, {"incorrect"}, Lanes) = 1

\* the number of Hit events at the end of `data`, after its last event that
\* is not a Hit
RECURSIVE TrailingHits(_)
TrailingHits(data) ==
    IF data = <<>> THEN 0
    ELSE IF data[Len(data)].hit_status = "hit"
         THEN 1 + TrailingHits(SubSeq(data, 1, Len(data) - 1))
         ELSE 0

\* the events recorded in the current level
LevelEvents == SelectSeq(event_rows, LAMBDA row : row.level = current_level)

\* C19: while a level is being played, combo equals the number of Hit
\* events of the level since its most recent Miss or Incorrect event (or its
\* start); a step changes combo only by recording a Hit (+1), by recording a
\* Miss or an Incorrect (to 0), or by starting a level (to 0).
C19_Combo ==
    /\ []((started /\ ~in_menu /\ ~game_over /\ ~exited) =>
            combo = TrailingHits(LevelEvents))
    /\ [][ (started /\ ~in_menu /\ ~game_over /\ combo' # combo) =>
            \/ /\ Len(NewEvents) = 1 /\ NewEvents[1].hit_status = "hit"
               /\ combo' = combo + 1
            \/ /\ NewEvents # <<>>
               /\ NewEvents[Len(NewEvents)].hit_status \in {"miss", "incorrect"}
               /\ combo' = 0
            \/ /\ current_level' # current_level \/ lastOp'.op = "start"
               /\ combo' = 0 ]_vars

\* C19 witness: a hit has brought combo to 1 in a level in which an
\* Incorrect or a Miss had been recorded before.
C19_Witness ==
    /\ lastOp.op = "press" /\ lastOp.res = "hit"
    /\ ~in_menu /\ ~game_over
    /\ combo = 1
    /\ Len(LevelEvents) >= 2

\* more than the notes that are in the active set at one time
IdSlots == 9

\* a Missed marker whose identity is r modulo IdSlots is in the active set
MissedInSlot(r) ==
    \E i \in DOMAIN notes : notes[i].state = "missed" /\ notes[i].id % IdSlots = r

\* C20: a running update that does not end the level removes the Missed
\* markers with now - resolvedAt > 0.5 s and keeps every other Missed marker
\* as it is, so a marker is removed at the first such update after its miss
\* and never earlier; and while running updates keep occurring every Missed
\* marker is eventually removed (or the game ends).
C20_Pruning ==
    /\ [][ (RunningUpdateStep /\ lastOp'.res = "run") =>
            \A i \in DOMAIN notes :
                notes[i].state = "missed" =>
                    IF now - notes[i].miss_time > MISS_GRACE_MS
                    THEN \A j \in DOMAIN notes' : notes'[j].id # notes[i].id
                    ELSE \E j \in DOMAIN notes' : notes'[j] = notes[i] ]_vars
    /\ [](Len(notes) < IdSlots)
    /\ \A r \in 0 .. IdSlots - 1 :
          MissedInSlot(r) ~> (~MissedInSlot(r) \/ game_over \/ exited)

\* C20 witness: a marker missed more than 0.5 s ago has just been removed by
\* an update, while a marker missed later is still in the active set.
C20_Witness ==
    /\ lastOp.op = "update" /\ lastOp.res = "run"
    /\ \E i \in DOMAIN notes : notes[i].state = "missed"
    /\ \E id \in 1 .. spawned :
          /\ \E k \in DOMAIN event_rows :
                event_rows[k].note = id /\ event_rows[k].hit_status = "miss"
                    /\ event_rows[k].level = current_level
          /\ \A i \in DOMAIN notes : notes[i].id > id

\* C21: in every reachable state every lane has at most one Active marker
\* inside the judgment window [HIT_LINE_Y - NOTE_HEIGHT, HIT_LINE_Y], also
\* after prompts or slow frames held the loop while the level clock ran.
C21_OneMarkerPerWindow ==
    \A l \in 0 .. LaneCount - 1 : Cardinality(EligibleAt(l)) <= 1

\* a step that begins a level: a game started, or the next level entered
LevelBegins ==
    \/ lastOp'.op = "start"
    \/ current_level' # current_level /\ ~game_over'

\* C22: a skip or a return to menu is never applied to a level that is
\* paused, and whenever a level begins (game start, completion or skip) the
\* session is not paused, no pause is in progress and the accumulated
\* paused time is 0.
C22_AbandonFromRunning ==
    [][ /\ (AbandonStep /\ started /\ ~in_menu /\ ~game_over) => ~paused
        /\ LevelBegins =>
              ~paused' /\ pause_start_time' = None /\ total_paused_time' = 0 ]_vars

\* C23: one feedback row and one summary are written per level close: the
\* two files grow together and by one row at a time, within one session no
\* level number has two summaries, and a skip or a return to menu made
\* while no level is in progress (in the menu, or after the session ended)
\* writes no feedback row and no summary.
C23_OneRecordPerClose ==
    /\ [](Len(feedback_rows) = Len(analysis_rows))
    /\ [](\A i, j \in DOMAIN analysis_rows :
            analysis_rows[i].level = analysis_rows[j].level => i = j)
    /\ [][ /\ Len(analysis_rows') <= Len(analysis_rows) + 1
           /\ (AbandonStep /\ started /\ (in_menu \/ game_over)) =>
                 feedback_rows' = feedback_rows /\ analysis_rows' = analysis_rows ]_vars

\* C24: a lane press made while the session is paused changes nothing: the
\* active set (states and membership), the combo, hit and incorrect-press
\* counters stay as they are and no event is recorded.
C24_PausedPress ==
    [][ (PressStep /\ paused /\ ~in_menu) =>
            /\ notes' = notes
            /\ combo' = combo /\ hits' = hits /\ incorrect_hits' = incorrect_hits
            /\ event_rows' = event_rows /\ session_data' = session_data ]_vars

====
